---- MODULE Spec2Model ----
(***************************************************************************)
(* Model of SingleLinkedList<Type> (single-linked-list.h).                 *)
(*                                                                         *)
(* Memory is a map from addresses to forward links.  The address of the    *)
(* sentinel head_ embedded in list l is head_(l) (a negative number), heap *)
(* nodes are 1..MaxNodes and are handed out in increasing order by `new`,  *)
(* never reused, so that a released node stays recognisable.  `freed`      *)
(* counts the `delete`s applied to each node (the tracking allocator).     *)
(*                                                                         *)
(* Copy construction, literal construction and copy assignment run         *)
(* CreateSingleLinkedList one loop iteration per step (pc = "build"), so   *)
(* that a throwing `new Node` can interrupt them after any number of       *)
(* nodes; no other operation is enabled until the operation has finished.  *)
(* A cursor (BasicIterator) is a value, the address it holds: the caller   *)
(* may hold a cursor to every position, so the positional operations take  *)
(* any position of the list and the claims about cursors speak of every    *)
(* address a cursor can hold.                                              *)
(* `last` names the operation in progress or just finished, its arguments  *)
(* and its result, and cp.pre is the memory as it was when the copy in     *)
(* progress started.                                                       *)
(*                                                                         *)
(* Spec runs the constructors, assignment, swap and the operations on      *)
(* nodes, with allocations that may throw.  SpecCmp applies the six        *)
(* comparison operators to lists holding any elements.  SpecContract adds  *)
(* to the operations on nodes the calls whose precondition does not hold.  *)
(***************************************************************************)
EXTENDS Integers, Sequences, FiniteSets, TLC

VARIABLES next, value, size, live, nalloc, freed, pc, cp, last

vars == <<next, value, size, live, nalloc, freed, pc, cp, last>>

\* ---------------------------------------------------------------- bounds
MaxNodes == 4
MaxVal == 2
MaxLit == 2

\* ------------------------------------------------------------- addresses
NULL == 0
rhs_copy == 3
container_copy == 4

UserLists == {1, 2}
Lists == UserLists \cup {rhs_copy, container_copy}
Nodes == 1..MaxNodes
Values == 1..MaxVal
head_(l) == 0 - l
Heads == {head_(l) : l \in Lists}
Addr == Nodes \cup Heads \cup {NULL}
Outcomes == {"ok", "bad_alloc", "copy_throw"}

\* the initializer lists tried: one of each length, neighbours different
Literals == {[i \in 1..n |-> ((n - i) % MaxVal) + 1] : n \in 0..MaxLit}

\* ------------------------------------------------------ chain traversal
RECURSIVE Walk(_, _, _)
Walk(nx, p, fuel) ==
    IF p = NULL \/ fuel = 0 THEN << >>
    ELSE <<p>> \o Walk(nx, nx[p], fuel - 1)

\* the nodes visited from begin() to end(); longer than MaxNodes iff cyclic
Chain(nx, l) == Walk(nx, nx[head_(l)], MaxNodes + 1)
Range(s) == {s[i] : i \in 1..Len(s)}
Elems(nx, val, l) ==
    LET ch == Chain(nx, l) IN [i \in 1..Len(ch) |-> val[ch[i]]]
\* the positions a cursor into l may hold: the sentinel and the real nodes
Positions(nx, l) == {head_(l)} \cup Range(Chain(nx, l))

\* -------------------------------------------------------------- observers
GetSize(sz, l) == sz[l]
IsEmpty(sz, l) == sz[l] = 0
end == NULL

\* ---------------------------------------------------------------- cursors
begin(nx, l) == nx[head_(l)]
before_beginOfTemporary(l) == head_(container_copy)
before_begin(l) == head_(l)
\* ++it
Advance(nx, p) == nx[p]

\* ------------------------------------------------------------ assertions
\* assert(size_ != 0 && head_.next_node != nullptr) in PopFront
PopFrontAssert(nx, sz, l) == sz[l] # 0 /\ nx[head_(l)] # NULL
\* assert(pos.node_) in InsertAfter
InsertAfterAssert(pos) == pos # NULL
\* assert(size_ != 0 && pos.node_ && pos.node_->next_node) in EraseAfter
EraseAfterAssert(nx, sz, l, pos) == sz[l] # 0 /\ pos # NULL /\ nx[pos] # NULL
\* assert(node_) in operator++
IncrementAssert(p) == p # NULL
DerefAssertNone(p) == TRUE
\* assert(node_) in operator* and operator->
DerefAssert(p) == p # NULL

\* --------------------------------------------------- allocator and links
\* delete n: one more release of n recorded by the allocator
DeleteNode(fr, n) == IF n \in Nodes THEN [fr EXCEPT ![n] = @ + 1] ELSE fr
\* the storage of a released node is no longer part of the program's state
Scrub(f, dead, blank) == [a \in DOMAIN f |-> IF a \in dead THEN blank ELSE f[a]]

LinkNewLoseTail(nx, p, n) == [nx EXCEPT ![n] = NULL, ![p] = n]
\* p->next_node = new Node(value, p->next_node)
LinkNew(nx, p, n) == [nx EXCEPT ![n] = nx[p], ![p] = n]

UnlinkKeep(nx, p) == nx
UnlinkAll(nx, p) == [nx EXCEPT ![p] = NULL]
\* p->next_node = p->next_node->next_node
Unlink(nx, p) == [nx EXCEPT ![p] = nx[nx[p]]]

ErasedSelf(nx, p) == p
ErasedOneTooFar(nx, p) == IF nx[nx[p]] # NULL THEN nx[nx[p]] ELSE nx[p]
\* the node handed to delete by PopFront / EraseAfter
Erased(nx, p) == nx[p]

InsNext(nx, pos, n, f) == IF f = "ok" THEN LinkNew(nx, pos, n) ELSE nx
InsValue(val, n, v, f) == IF f = "ok" THEN [val EXCEPT ![n] = v] ELSE val
InsSizeAlways(sz, l, f) == [sz EXCEPT ![l] = @ + 1]
\* ++size_ is reached only when new Node(...) did not throw
InsSize(sz, l, f) == IF f = "ok" THEN [sz EXCEPT ![l] = @ + 1] ELSE sz
InsAlloc(na, f) == IF f = "bad_alloc" THEN na ELSE na + 1
\* a throwing element copy makes the new-expression give the memory back
InsFreed(fr, n, f) == IF f = "copy_throw" THEN DeleteNode(fr, n) ELSE fr
CanAlloc(f) == f = "bad_alloc" \/ nalloc < MaxNodes

RECURSIVE ReleaseFrom(_, _, _, _)
ReleaseFrom(nx, fr, p, fuel) ==
    IF p = NULL \/ fuel = 0 THEN fr
    ELSE ReleaseFrom(nx, DeleteNode(fr, p), nx[p], fuel - 1)

\* the loop of Clear(): the nodes in the order they are handed to delete
RECURSIVE ClearLoop(_, _, _, _)
ClearLoop(nx, l, deleted, fuel) ==
    IF nx[head_(l)] = NULL \/ fuel = 0 THEN deleted
    ELSE ClearLoop([nx EXCEPT ![head_(l)] = nx[nx[head_(l)]]], l,
                   Append(deleted, nx[head_(l)]), fuel - 1)
ClearOrder(nx, l) == ClearLoop(nx, l, << >>, MaxNodes + 1)

ClearFreedLeakFirst(nx, fr, l) ==
    IF nx[head_(l)] = NULL THEN fr
    ELSE ReleaseFrom(nx, fr, nx[nx[head_(l)]], MaxNodes + 1)
\* the deletes of Clear(): every node from head_.next_node to the end
ClearFreed(nx, fr, l) == ReleaseFrom(nx, fr, nx[head_(l)], MaxNodes + 1)
ClearNextKeep(nx, l) == nx
ClearNext(nx, l) == [nx EXCEPT ![head_(l)] = NULL]
ClearSize(sz, l) == [sz EXCEPT ![l] = 0]

SwapSizeOneWay(sz, a, b) == [sz EXCEPT ![a] = sz[b]]
\* std::swap(size_, other.size_)
SwapSize(sz, a, b) == [sz EXCEPT ![a] = sz[b], ![b] = sz[a]]
SwapLinkNone(nx, a, b) == nx
SwapLinkShare(nx, a, b) == [nx EXCEPT ![head_(a)] = nx[head_(b)]]
\* std::swap(head_.next_node, other.head_.next_node)
SwapLink(nx, a, b) ==
    [nx EXCEPT ![head_(a)] = nx[head_(b)], ![head_(b)] = nx[head_(a)]]

KeepInsertPos(ret, pos) == pos
\* insert_after_pos = container_copy.InsertAfter(insert_after_pos, *it)
AdvanceInsertPos(ret, pos) == ret

\* ------------------------------------------------------------ bookkeeping
NoCp == [kind |-> "none", dst |-> 0, target |-> 0, src |-> 0,
         it |-> NULL, lit |-> << >>, pos |-> NULL, pre |-> << >>]
Snapshot == [next |-> next, value |-> value, size |-> size, live |-> live,
             nalloc |-> nalloc, freed |-> freed]
\* the element values the caller passes to PushFront / InsertAfter
PushValues == {(nalloc % MaxVal) + 1}
\* which operation ran, on which list l (and other list r), at which cursor
\* pos, how its allocation went, the cursor it returned, and how many nodes
\* a copy had built when it threw; v, vals and pre are the element or the
\* initializer list it was given and the memory it started from
Op(name, l, r, pos, f, ret) ==
    [op |-> name, l |-> l, r |-> r, pos |-> pos, f |-> f, ret |-> ret,
     k |-> 0, v |-> 0, vals |-> << >>, pre |-> << >>]

Init ==
    /\ next = [a \in Nodes \cup Heads |-> NULL]
    /\ value = [n \in Nodes |-> 0]
    /\ size = [l \in Lists |-> 0]
    /\ live = [l \in Lists |-> FALSE]
    /\ nalloc = 0
    /\ freed = [n \in Nodes |-> 0]
    /\ pc = "idle"
    /\ cp = NoCp
    /\ last = Op("init", 0, 0, NULL, "ok", NULL)

\* ------------------------------------------------------------ operations
\* SingleLinkedList() = default
DefaultCtor(l) ==
    /\ pc = "idle" /\ ~live[l]
    /\ live' = [live EXCEPT ![l] = TRUE]
    /\ size' = [size EXCEPT ![l] = 0]
    /\ next' = [next EXCEPT ![head_(l)] = NULL]
    /\ last' = Op("ctor_empty", l, 0, NULL, "ok", NULL)
    /\ UNCHANGED <<value, nalloc, freed, pc, cp>>

\* ~SingleLinkedList() { Clear(); }
Destroy(l) ==
    /\ pc = "idle" /\ live[l]
    /\ freed' = ClearFreed(next, freed, l)
    /\ next' = Scrub(ClearNext(next, l), Range(Chain(next, l)), NULL)
    /\ value' = Scrub(value, Range(Chain(next, l)), 0)
    /\ size' = ClearSize(size, l)
    /\ live' = [live EXCEPT ![l] = FALSE]
    /\ last' = Op("destroy", l, 0, NULL, "ok", NULL)
    /\ UNCHANGED <<nalloc, pc, cp>>

Clear(l) ==
    /\ pc = "idle" /\ live[l]
    /\ freed' = ClearFreed(next, freed, l)
    /\ next' = Scrub(ClearNext(next, l), Range(Chain(next, l)), NULL)
    /\ value' = Scrub(value, Range(Chain(next, l)), 0)
    /\ size' = ClearSize(size, l)
    /\ last' = Op("clear", l, 0, NULL, "ok", NULL)
    /\ UNCHANGED <<live, nalloc, pc, cp>>

PushFront(l, v, f) ==
    /\ pc = "idle" /\ live[l] /\ CanAlloc(f)
    /\ next' = InsNext(next, head_(l), nalloc + 1, f)
    /\ value' = InsValue(value, nalloc + 1, v, f)
    /\ size' = InsSize(size, l, f)
    /\ freed' = InsFreed(freed, nalloc + 1, f)
    /\ nalloc' = InsAlloc(nalloc, f)
    /\ last' = [Op("push", l, 0, NULL, f, NULL) EXCEPT
                    !.v = v, !.pre = Snapshot]
    /\ UNCHANGED <<live, pc, cp>>

PopFront(l) ==
    /\ pc = "idle" /\ live[l]
    /\ PopFrontAssert(next, size, l)
    /\ freed' = DeleteNode(freed, Erased(next, head_(l)))
    /\ next' = Scrub(Unlink(next, head_(l)), {Erased(next, head_(l))}, NULL)
    /\ value' = Scrub(value, {Erased(next, head_(l))}, 0)
    /\ size' = [size EXCEPT ![l] = @ - 1]
    /\ last' = Op("pop", l, 0, NULL, "ok", NULL)
    /\ UNCHANGED <<live, nalloc, pc, cp>>

InsertAfter(l, pos, v, f) ==
    /\ pc = "idle" /\ live[l] /\ CanAlloc(f)
    /\ InsertAfterAssert(pos) /\ pos \in Positions(next, l)
    /\ next' = InsNext(next, pos, nalloc + 1, f)
    /\ value' = InsValue(value, nalloc + 1, v, f)
    /\ size' = InsSize(size, l, f)
    /\ freed' = InsFreed(freed, nalloc + 1, f)
    /\ nalloc' = InsAlloc(nalloc, f)
    /\ last' = [Op("insert", l, 0, pos, f,
                   IF f = "ok" THEN next'[pos] ELSE NULL) EXCEPT
                    !.v = v, !.pre = Snapshot]
    /\ UNCHANGED <<live, pc, cp>>

EraseAfter(l, pos) ==
    /\ pc = "idle" /\ live[l]
    /\ pos \in Positions(next, l)
    /\ EraseAfterAssert(next, size, l, pos)
    /\ freed' = DeleteNode(freed, Erased(next, pos))
    /\ next' = Scrub(Unlink(next, pos), {Erased(next, pos)}, NULL)
    /\ value' = Scrub(value, {Erased(next, pos)}, 0)
    /\ size' = [size EXCEPT ![l] = @ - 1]
    /\ last' = Op("erase", l, 0, pos, "ok", next'[pos])
    /\ UNCHANGED <<live, nalloc, pc, cp>>

\* a.swap(b), also reached through the free function swap(a, b)
Swap(a, b) ==
    /\ pc = "idle" /\ live[a] /\ live[b]
    /\ size' = SwapSize(size, a, b)
    /\ next' = SwapLink(next, a, b)
    /\ last' = Op("swap", a, b, NULL, "ok", NULL)
    /\ UNCHANGED <<value, live, nalloc, freed, pc, cp>>

\* ---------------------------------------------------- calls out of contract
\* A call whose precondition does not hold ends the behaviour: when the
\* assertion of the operation fails, abort() ends the process and its memory
\* with it (pc = "abort"); when the assertion lets the call pass, the call
\* goes on out of contract (pc = "undetected") and is followed no further.
OutOfContract(call, l, pos, passes) ==
    /\ pc = "idle" /\ live[l]
    /\ pc' = IF passes THEN "undetected" ELSE "abort"
    /\ last' = Op(call, l, 0, pos, "ok", NULL)
    /\ next' = [a \in Nodes \cup Heads |-> NULL]
    /\ value' = [n \in Nodes |-> 0]
    /\ size' = [m \in Lists |-> 0]
    /\ live' = [m \in Lists |-> FALSE]
    /\ nalloc' = 0
    /\ freed' = [n \in Nodes |-> 0]
    /\ cp' = NoCp

\* PopFront() on an empty list
PopFrontOnEmpty(l) ==
    /\ next[head_(l)] = NULL
    /\ OutOfContract("PopFront", l, NULL, PopFrontAssert(next, size, l))

\* InsertAfter(end(), v)
InsertAfterEnd(l) ==
    OutOfContract("InsertAfter", l, NULL, InsertAfterAssert(NULL))

\* EraseAfter(pos) with the end cursor or at a position without successor,
\* which on an empty list is the sentinel
EraseAfterNothing(l, pos) ==
    /\ pos = NULL \/ (pos \in Positions(next, l) /\ next[pos] = NULL)
    /\ OutOfContract("EraseAfter", l, pos,
                     EraseAfterAssert(next, size, l, pos))

\* *it and it-> with it the end cursor or the cursor before_begin()
DerefNoElement(l, call, pos) ==
    /\ call \in {"operator*", "operator->"}
    /\ pos \in {NULL, before_begin(l)}
    /\ OutOfContract(call, l, pos, DerefAssert(pos))

\* ++it with it the end cursor
IncrementEnd(l) ==
    OutOfContract("operator++", l, NULL, IncrementAssert(NULL))

\* ------------------------------------------- construction and assignment
SwapAndDestroyLeak(a, tmp) ==
    LET nx1 == SwapLink(next, a, tmp)
        sz1 == SwapSize(size, a, tmp)
    IN [next |-> ClearNext(nx1, tmp),
        value |-> value,
        size |-> ClearSize(sz1, tmp),
        freed |-> freed,
        live |-> [live EXCEPT ![tmp] = FALSE]]

\* a.swap(tmp) followed by the destructor of the temporary tmp
SwapAndDestroy(a, tmp) ==
    LET nx1 == SwapLink(next, a, tmp)
        sz1 == SwapSize(size, a, tmp)
        dead == Range(Chain(nx1, tmp))
    IN [next |-> Scrub(ClearNext(nx1, tmp), dead, NULL),
        value |-> Scrub(value, dead, 0),
        size |-> ClearSize(sz1, tmp),
        freed |-> ClearFreed(nx1, freed, tmp),
        live |-> [live EXCEPT ![tmp] = FALSE]]

BuildInPlace(target) == before_begin(target)
\* insert_after_pos = container_copy.before_begin()
BuildPos(target) == before_begin(container_copy)

\* it != container.end() in CreateSingleLinkedList
AtEnd == IF cp.kind = "literal" THEN cp.lit = << >> ELSE cp.it = NULL
DerefFromBack ==
    IF cp.kind = "literal" THEN cp.lit[Len(cp.lit)] ELSE value[cp.it]
\* *it
Deref == IF cp.kind = "literal" THEN Head(cp.lit) ELSE value[cp.it]

\* SingleLinkedList(std::initializer_list<Type>) up to the loop of
\* CreateSingleLinkedList
LiteralCtor(l, vals) ==
    /\ pc = "idle" /\ ~live[l]
    /\ live' = [live EXCEPT ![l] = TRUE, ![container_copy] = TRUE]
    /\ size' = [size EXCEPT ![l] = 0, ![container_copy] = 0]
    /\ next' = [next EXCEPT ![head_(l)] = NULL,
                            ![head_(container_copy)] = NULL]
    /\ cp' = [kind |-> "literal", dst |-> l, target |-> l, src |-> 0,
              it |-> NULL, lit |-> vals, pos |-> BuildPos(l),
              pre |-> Snapshot]
    /\ pc' = "build"
    /\ last' = [Op("ctor_literal", l, 0, NULL, "ok", NULL) EXCEPT
                    !.vals = vals]
    /\ UNCHANGED <<value, nalloc, freed>>

\* SingleLinkedList(const SingleLinkedList&) up to the loop
CopyCtor(l, other) ==
    /\ pc = "idle" /\ ~live[l] /\ live[other]
    /\ live' = [live EXCEPT ![l] = TRUE, ![container_copy] = TRUE]
    /\ size' = [size EXCEPT ![l] = 0, ![container_copy] = 0]
    /\ next' = [next EXCEPT ![head_(l)] = NULL,
                            ![head_(container_copy)] = NULL]
    /\ cp' = [kind |-> "copy", dst |-> l, target |-> l, src |-> other,
              it |-> begin(next, other), lit |-> << >>,
              pos |-> BuildPos(l), pre |-> Snapshot]
    /\ pc' = "build"
    /\ last' = Op("ctor_copy", l, other, NULL, "ok", NULL)
    /\ UNCHANGED <<value, nalloc, freed>>

CopyAssignNoSelfTest(l, rhs) ==
    /\ pc = "idle" /\ live[l] /\ live[rhs]
    /\ live' = [live EXCEPT ![rhs_copy] = TRUE, ![container_copy] = TRUE]
    /\ size' = [size EXCEPT ![rhs_copy] = 0, ![container_copy] = 0]
    /\ next' = [next EXCEPT ![head_(rhs_copy)] = NULL,
                            ![head_(container_copy)] = NULL]
    /\ cp' = [kind |-> "assign", dst |-> l, target |-> rhs_copy,
              src |-> rhs, it |-> begin(next, rhs), lit |-> << >>,
              pos |-> BuildPos(rhs_copy), pre |-> Snapshot]
    /\ pc' = "build"
    /\ last' = Op("assign", l, rhs, NULL, "ok", NULL)
    /\ UNCHANGED <<value, nalloc, freed>>

\* operator=: nothing when this == &rhs, otherwise rhs_copy(rhs) up to the loop
CopyAssign(l, rhs) ==
    /\ pc = "idle" /\ live[l] /\ live[rhs]
    /\ IF l = rhs
       THEN /\ last' = Op("assign_self", l, rhs, NULL, "ok", NULL)
            /\ UNCHANGED <<next, value, size, live, nalloc, freed, pc, cp>>
       ELSE /\ live' = [live EXCEPT ![rhs_copy] = TRUE,
                                    ![container_copy] = TRUE]
            /\ size' = [size EXCEPT ![rhs_copy] = 0, ![container_copy] = 0]
            /\ next' = [next EXCEPT ![head_(rhs_copy)] = NULL,
                                    ![head_(container_copy)] = NULL]
            /\ cp' = [kind |-> "assign", dst |-> l, target |-> rhs_copy,
                      src |-> rhs, it |-> begin(next, rhs), lit |-> << >>,
                      pos |-> BuildPos(rhs_copy), pre |-> Snapshot]
            /\ pc' = "build"
            /\ last' = Op("assign", l, rhs, NULL, "ok", NULL)
            /\ UNCHANGED <<value, nalloc, freed>>

\* one iteration of the loop of CreateSingleLinkedList; when new Node throws,
\* container_copy is destroyed and the object under construction is dropped
BuildStep(f) ==
    /\ pc = "build" /\ ~AtEnd /\ CanAlloc(f)
    /\ nalloc' = InsAlloc(nalloc, f)
    /\ IF f = "ok"
       THEN /\ next' = InsNext(next, cp.pos, nalloc + 1, f)
            /\ value' = InsValue(value, nalloc + 1, Deref, f)
            /\ size' = InsSize(size, container_copy, f)
            /\ freed' = InsFreed(freed, nalloc + 1, f)
            /\ cp' = [cp EXCEPT
                  !.pos = AdvanceInsertPos(next'[cp.pos], cp.pos),
                  !.it = IF cp.kind = "literal" THEN NULL
                        ELSE Advance(next, cp.it),
                  !.lit = IF cp.kind = "literal" THEN Tail(cp.lit) ELSE << >>]
            /\ UNCHANGED <<live, pc, last>>
       ELSE /\ freed' = ClearFreed(next, InsFreed(freed, nalloc + 1, f),
                                   container_copy)
            /\ next' = Scrub(ClearNext(next, container_copy),
                             Range(Chain(next, container_copy)), NULL)
            /\ value' = Scrub(value, Range(Chain(next, container_copy)), 0)
            /\ size' = ClearSize(InsSize(size, container_copy, f),
                                 container_copy)
            /\ live' = [live EXCEPT ![container_copy] = FALSE,
                                    ![cp.target] = FALSE]
            /\ pc' = "idle"
            /\ cp' = NoCp
            /\ last' = [last EXCEPT !.f = f, !.k = size[container_copy]]

\* the loop is over: swap(container_copy) and container_copy goes out of scope
BuildFinish ==
    /\ pc = "build" /\ AtEnd
    /\ LET s == SwapAndDestroy(cp.target, container_copy)
       IN /\ next' = s.next /\ value' = s.value /\ size' = s.size
          /\ freed' = s.freed /\ live' = s.live
    /\ IF cp.kind = "assign"
       THEN pc' = "adopt" /\ cp' = cp
       ELSE pc' = "idle" /\ cp' = NoCp
    /\ UNCHANGED <<nalloc, last>>

\* operator=: swap(rhs_copy) and rhs_copy goes out of scope
Adopt ==
    /\ pc = "adopt"
    /\ LET s == SwapAndDestroy(cp.dst, rhs_copy)
       IN /\ next' = s.next /\ value' = s.value /\ size' = s.size
          /\ freed' = s.freed /\ live' = s.live
    /\ pc' = "idle"
    /\ cp' = NoCp
    /\ UNCHANGED <<nalloc, last>>

Next ==
    \/ \E l \in UserLists : DefaultCtor(l)
    \/ \E l \in UserLists, vals \in Literals : LiteralCtor(l, vals)
    \/ \E l \in UserLists, other \in UserLists : CopyCtor(l, other)
    \/ \E l \in UserLists, rhs \in UserLists : CopyAssign(l, rhs)
    \/ \E f \in Outcomes : BuildStep(f)
    \/ BuildFinish
    \/ Adopt
    \/ \E l \in UserLists : Destroy(l)
    \/ \E l \in UserLists : Clear(l)
    \/ \E l \in UserLists, v \in PushValues, f \in Outcomes : PushFront(l, v, f)
    \/ \E l \in UserLists : PopFront(l)
    \/ \E l \in UserLists : \E pos \in Positions(next, l) :
          \E v \in PushValues, f \in Outcomes : InsertAfter(l, pos, v, f)
    \/ \E l \in UserLists : \E pos \in Positions(next, l) : EraseAfter(l, pos)
    \/ \E a \in UserLists, b \in UserLists : Swap(a, b)

Spec == Init /\ [][Next]_vars

\* the operations on nodes with every allocation succeeding, and the calls
\* out of contract
NextContract ==
    \/ \E l \in UserLists : DefaultCtor(l)
    \/ \E l \in UserLists : Destroy(l)
    \/ \E l \in UserLists : Clear(l)
    \/ \E l \in UserLists, v \in PushValues : PushFront(l, v, "ok")
    \/ \E l \in UserLists : PopFront(l)
    \/ \E l \in UserLists : \E pos \in Positions(next, l) :
          \E v \in PushValues : InsertAfter(l, pos, v, "ok")
    \/ \E l \in UserLists : \E pos \in Positions(next, l) : EraseAfter(l, pos)
    \/ \E l \in UserLists : PopFrontOnEmpty(l)
    \/ \E l \in UserLists : InsertAfterEnd(l)
    \/ \E l \in UserLists : \E pos \in Positions(next, l) \cup {NULL} :
          EraseAfterNothing(l, pos)
    \/ \E l \in UserLists, call \in {"operator*", "operator->"} :
          \E pos \in {NULL, before_begin(l)} : DerefNoElement(l, call, pos)
    \/ \E l \in UserLists : IncrementEnd(l)

SpecContract == Init /\ [][NextContract]_vars

\* ------------------------------------------------------------ comparisons
\* std::equal(first1, last1, first2): first2 is advanced and dereferenced
\* without a test against its end; overrun tells that it was an end cursor
RECURSIVE StdEqual(_, _, _, _, _)
StdEqual(nx, val, p, q, fuel) ==
    IF p = NULL \/ fuel = 0 THEN [res |-> TRUE, overrun |-> FALSE]
    ELSE IF q = NULL THEN [res |-> FALSE, overrun |-> TRUE]
    ELSE IF val[p] # val[q] THEN [res |-> FALSE, overrun |-> FALSE]
    ELSE StdEqual(nx, val, nx[p], nx[q], fuel - 1)

\* std::lexicographical_compare(first1, last1, first2, last2)
RECURSIVE LexCompareOrEqual(_, _, _, _, _)
LexCompareOrEqual(nx, val, p, q, fuel) ==
    IF p = NULL \/ q = NULL \/ fuel = 0 THEN p = NULL
    ELSE IF val[p] < val[q] THEN TRUE
    ELSE IF val[q] < val[p] THEN FALSE
    ELSE LexCompareOrEqual(nx, val, nx[p], nx[q], fuel - 1)
RECURSIVE LexCompare(_, _, _, _, _)
LexCompare(nx, val, p, q, fuel) ==
    IF p = NULL \/ q = NULL \/ fuel = 0 THEN p = NULL /\ q # NULL
    ELSE IF val[p] < val[q] THEN TRUE
    ELSE IF val[q] < val[p] THEN FALSE
    ELSE LexCompare(nx, val, nx[p], nx[q], fuel - 1)

ListEqNoSize(nx, val, sz, a, b) ==
    StdEqual(nx, val, begin(nx, a), begin(nx, b), MaxNodes + 1)
\* operator==
ListEq(nx, val, sz, a, b) ==
    IF sz[a] # sz[b] THEN [res |-> FALSE, overrun |-> FALSE]
    ELSE StdEqual(nx, val, begin(nx, a), begin(nx, b), MaxNodes + 1)
\* operator!=
ListNe(nx, val, sz, a, b) == ~ListEq(nx, val, sz, a, b).res
\* operator<
ListLt(nx, val, a, b) ==
    LexCompare(nx, val, begin(nx, a), begin(nx, b), MaxNodes + 1)
\* operator<=
ListLe(nx, val, a, b) == ~ListLt(nx, val, b, a)
\* operator>
ListGt(nx, val, a, b) == ListLt(nx, val, b, a)
\* operator>=
ListGe(nx, val, a, b) == ~ListLt(nx, val, a, b)

CmpOps == {"==", "!=", "<", "<=", ">", ">="}
CmpResult(o, a, b) ==
    CASE o = "==" -> ListEq(next, value, size, a, b).res
      [] o = "!=" -> ListNe(next, value, size, a, b)
      [] o = "<" -> ListLt(next, value, a, b)
      [] o = "<=" -> ListLe(next, value, a, b)
      [] o = ">" -> ListGt(next, value, a, b)
      [] o = ">=" -> ListGe(next, value, a, b)

\* lhs o rhs for one of the six operators: the lists are read only, the
\* result is recorded in last.k (1 for true); the steps compare the two
\* user lists, a list with itself is compared in the claims' formulas
Compare(o, a, b) ==
    /\ pc = "idle" /\ live[a] /\ live[b]
    /\ last' = [Op(o, a, b, NULL, "ok", NULL) EXCEPT
                    !.k = IF CmpResult(o, a, b) THEN 1 ELSE 0]
    /\ UNCHANGED <<next, value, size, live, nalloc, freed, pc, cp>>

\* the lists compared: the two user lists and a third list object, which
\* stands where an assignment keeps rhs_copy
CmpLists == UserLists \cup {rhs_copy}
\* three lists holding any elements, MaxNodes nodes in all: list 1 on nodes
\* 1..n1, list 2 on the n2 nodes after them, the third on the n3 nodes after
InitCmp ==
    \E n1, n2, n3 \in 0..MaxNodes :
        /\ n1 + n2 + n3 <= MaxNodes
        /\ \E elems \in [1..(n1 + n2 + n3) -> Values] :
               /\ value = [n \in Nodes |->
                              IF n <= n1 + n2 + n3 THEN elems[n] ELSE 0]
               /\ next = [a \in Nodes \cup Heads |->
                             IF a = head_(1) THEN (IF n1 = 0 THEN NULL ELSE 1)
                             ELSE IF a = head_(2)
                                  THEN (IF n2 = 0 THEN NULL ELSE n1 + 1)
                             ELSE IF a = head_(rhs_copy)
                                  THEN (IF n3 = 0 THEN NULL ELSE n1 + n2 + 1)
                             ELSE IF a \in Nodes /\ a < n1 + n2 + n3
                                      /\ a # n1 /\ a # n1 + n2
                                  THEN a + 1
                             ELSE NULL]
               /\ size = [l \in Lists |->
                             IF l = 1 THEN n1 ELSE IF l = 2 THEN n2
                             ELSE IF l = rhs_copy THEN n3 ELSE 0]
               /\ nalloc = n1 + n2 + n3
    /\ live = [l \in Lists |-> l \in CmpLists]
    /\ freed = [n \in Nodes |-> 0]
    /\ pc = "idle"
    /\ cp = NoCp
    /\ last = Op("init", 0, 0, NULL, "ok", NULL)

NextCmp ==
    \/ \E a \in UserLists : \E b \in UserLists \ {a} : Compare("==", a, b)
    \/ \E a \in UserLists : \E b \in UserLists \ {a} : Compare("!=", a, b)
    \/ \E a \in UserLists : \E b \in UserLists \ {a} : Compare("<", a, b)
    \/ \E a \in UserLists : \E b \in UserLists \ {a} : Compare("<=", a, b)
    \/ \E a \in UserLists : \E b \in UserLists \ {a} : Compare(">", a, b)
    \/ \E a \in UserLists : \E b \in UserLists \ {a} : Compare(">=", a, b)

SpecCmp == InitCmp /\ [][NextCmp]_vars

\* ================================================================ claims
Injective(s) == \A i, j \in 1..Len(s) : s[i] = s[j] => i = j
NodesOf(nx, l) == Range(Chain(nx, l))
Allocated(na, fr, n) == n \in Nodes /\ n <= na /\ fr[n] = 0

\* C1: for every live list (temporaries included) the chain from the
\* sentinel's link visits exactly GetSize() distinct real nodes and then
\* reaches end-of-list.
C1_ChainMatchesSize ==
    \A l \in Lists : live[l] =>
        LET ch == Chain(next, l)
        IN /\ Len(ch) = size[l]
           /\ Len(ch) <= MaxNodes
           /\ Range(ch) \subseteq Nodes
           /\ Injective(ch)
           /\ (Len(ch) > 0 => next[ch[Len(ch)]] = NULL)

C1_Witness ==
    /\ pc = "idle" /\ last.op = "erase"
    /\ \E l \in UserLists : live[l] /\ size[l] = 2 /\ Len(Chain(next, l)) = 2

\* C2: no real node is reachable from the sentinels of two live lists,
\* the temporaries rhs_copy and container_copy included.
C2_NoSharedNodes ==
    \A a, b \in Lists :
        a # b /\ live[a] /\ live[b] =>
            NodesOf(next, a) \cap NodesOf(next, b) = {}

C2_Witness ==
    /\ pc = "adopt"
    /\ live[rhs_copy] /\ size[rhs_copy] >= 1
    /\ size[cp.dst] >= 1 /\ size[cp.src] >= 1

\* C3: no node is released twice, none that was never allocated, none that
\* a live list still reaches; and when a list is cleared or destroyed (by
\* Clear, the destructor, or as a temporary of a copy) every node it owned
\* just before has been released exactly once.
C3_Inv ==
    /\ \A n \in Nodes : freed[n] <= 1 /\ (n > nalloc => freed[n] = 0)
    /\ \A l \in Lists : live[l] =>
           \A n \in NodesOf(next, l) : Allocated(nalloc, freed, n)
    /\ \A n \in Nodes :
           Allocated(nalloc, freed, n) =>
               \E l \in Lists : live[l] /\ n \in NodesOf(next, l)

C3_Step ==
    /\ last'.op \in {"clear", "destroy"} =>
           \A n \in NodesOf(next, last'.l) : freed[n] = 0 /\ freed'[n] = 1
    /\ pc = "build" /\ pc' = "idle" /\ last'.f # "ok" =>
           \A n \in NodesOf(next, container_copy) :
               freed[n] = 0 /\ freed'[n] = 1
    /\ pc = "adopt" /\ pc' = "idle" =>
           \A n \in NodesOf(next, cp.dst) : freed[n] = 0 /\ freed'[n] = 1

C3_ReleasedExactlyOnce == []C3_Inv /\ [][C3_Step]_vars

C3_Witness ==
    /\ pc = "idle" /\ last.op = "clear"
    /\ \E l \in UserLists : live[l] /\ size[l] = 0
    /\ nalloc = 2 /\ freed[1] = 1 /\ freed[2] = 1

\* list l looks the same in memory (nx2, val2, sz2) as in (nx1, val1, sz1):
\* same nodes in the same order, same links, same elements, same size
SameList(nx1, val1, sz1, nx2, val2, sz2, l) ==
    /\ nx2[head_(l)] = nx1[head_(l)]
    /\ Chain(nx2, l) = Chain(nx1, l)
    /\ \A n \in NodesOf(nx1, l) : nx2[n] = nx1[n] /\ val2[n] = val1[n]
    /\ sz2[l] = sz1[l]

\* the nodes allocated since the allocator had handed out na nodes are all
\* released exactly once, and the older ones are as released as they were
FreshAllReleased(na, fr) ==
    /\ \A n \in Nodes : n > na /\ n <= nalloc' => freed'[n] = 1
    /\ \A n \in Nodes : n <= na => freed'[n] = fr[n]

\* C4: when a = b throws while the copy of b is being built, after k nodes,
\* a and b are as they were before the assignment and every node allocated
\* for the partial copy has been released.
C4_Step ==
    pc = "build" /\ cp.kind = "assign" /\ pc' = "idle" =>
        /\ last'.op = "assign" /\ last'.f # "ok"
        /\ last'.k = size[container_copy] /\ last'.k < cp.pre.size[cp.src]
        /\ live'[cp.dst] /\ live'[cp.src]
        /\ ~live'[rhs_copy] /\ ~live'[container_copy]
        /\ SameList(cp.pre.next, cp.pre.value, cp.pre.size,
                    next', value', size', cp.dst)
        /\ SameList(cp.pre.next, cp.pre.value, cp.pre.size,
                    next', value', size', cp.src)
        /\ FreshAllReleased(cp.pre.nalloc, cp.pre.freed)

C4_AssignFailureLeavesBothUnchanged == [][C4_Step]_vars

C4_Witness ==
    /\ pc = "idle" /\ last.op = "assign" /\ last.f # "ok" /\ last.k = 1
    /\ \E a, b \in UserLists : a # b /\ size[a] = 1 /\ size[b] = 2

\* C5: a PushFront or InsertAfter whose new Node throws leaves every link,
\* every element and every size as they were; the node it may
\* have allocated is released and no other release happens.
C5_Step ==
    last'.op \in {"push", "insert"} /\ last'.f # "ok" =>
        /\ next' = next /\ value' = value /\ size' = size /\ live' = live
        /\ FreshAllReleased(nalloc, freed)

C5_FailedInsertionChangesNothing == [][C5_Step]_vars

C5_Witness ==
    /\ pc = "idle" /\ last.op = "insert" /\ last.f = "copy_throw"
    /\ live[last.l] /\ size[last.l] = 2 /\ last.pos \in NodesOf(next, last.l)
    /\ freed[nalloc] = 1

\* C6: a finished copy construction or copy assignment leaves the
\* destination with the source's elements in the source's order and the
\* source's size, on nodes allocated by the copy; and a later PushFront,
\* PopFront, InsertAfter, EraseAfter, Clear or destructor on one list leaves
\* every other list as it was.
CopyDone(dst) ==
    /\ Elems(next', value', dst) = Elems(cp.pre.next, cp.pre.value, cp.src)
    /\ size'[dst] = cp.pre.size[cp.src]
    /\ Len(Chain(next', dst)) = size'[dst]
    /\ SameList(cp.pre.next, cp.pre.value, cp.pre.size,
                next', value', size', cp.src)
    /\ NodesOf(next', dst) \cap NodesOf(next', cp.src) = {}
    /\ \A n \in NodesOf(next', dst) : n > cp.pre.nalloc

C6_Step ==
    /\ pc = "build" /\ cp.kind = "copy" /\ pc' = "idle" /\ last'.f = "ok" =>
           CopyDone(cp.dst)
    /\ pc = "adopt" /\ pc' = "idle" => CopyDone(cp.dst)
    /\ last'.op \in {"push", "pop", "insert", "erase", "clear", "destroy"} =>
           \A m \in UserLists \ {last'.l} :
               SameList(next, value, size, next', value', size', m)

C6_CopyIsEqualAndIndependent == [][C6_Step]_vars

C6_Witness ==
    /\ pc = "idle" /\ last.op = "ctor_copy" /\ last.f = "ok"
    /\ live[1] /\ live[2] /\ size[1] = 2
    /\ Elems(next, value, 1) = Elems(next, value, 2)
    /\ Elems(next, value, 1)[1] # Elems(next, value, 1)[2]

\* C7: swap(a, b) exchanges the chains and the sizes of a and b, allocates
\* and releases nothing, undoes itself when applied again, and changes
\* nothing when a and b are the same list.
C7_Step ==
    last'.op = "swap" =>
        LET a == last'.l
            b == last'.r
        IN  /\ Chain(next', a) = Chain(next, b)
            /\ Chain(next', b) = Chain(next, a)
            /\ size'[a] = size[b] /\ size'[b] = size[a]
            /\ \A n \in Nodes : next'[n] = next[n]
            /\ value' = value /\ nalloc' = nalloc /\ freed' = freed
            /\ SwapLink(next', a, b) = next
            /\ SwapSize(size', a, b) = size
            /\ (a = b => next' = next /\ size' = size)

C7_SwapExchangesWithoutAllocating == [][C7_Step]_vars

C7_Witness ==
    /\ pc = "idle" /\ last.op = "swap"
    /\ live[1] /\ live[2] /\ size[1] = 1 /\ size[2] = 2

\* C8 as claimed: after swap(a, b) every cursor that was at a position of a,
\* the sentinel included, is at a position of b, and the other way round.
C8_Original_Step ==
    last'.op = "swap" /\ last'.l # last'.r =>
        LET a == last'.l
            b == last'.r
        IN  /\ \A p \in Positions(next, a) : p \in Positions(next', b)
            /\ \A p \in Positions(next, b) : p \in Positions(next', a)

C8_Original == [][C8_Original_Step]_vars

\* C8 as amended: after swap(a, b) a cursor that was at a real node of a is
\* at a real node of b and traverses the same nodes as before; a cursor that
\* was at the sentinel of a (before_begin) is still at the sentinel of a and
\* traverses the chain a took over from b.
C8_Step ==
    last'.op = "swap" /\ last'.l # last'.r =>
        \A a, b \in {last'.l, last'.r} : a # b =>
            /\ \A p \in NodesOf(next, a) :
                   /\ p \in NodesOf(next', b)
                   /\ p \notin Positions(next', a)
                   /\ Walk(next', p, MaxNodes + 1) = Walk(next, p, MaxNodes + 1)
            /\ LET p == before_begin(a)
               IN /\ p \in Positions(next', a)
                  /\ p \notin Positions(next', b)
                  /\ Walk(next', Advance(next', p), MaxNodes + 1)
                         = Chain(next, b)

C8_CursorsFollowNodesNotSentinels == [][C8_Step]_vars

C8_Witness ==
    /\ pc = "idle" /\ last.op = "swap"
    /\ last.l # last.r /\ size[last.l] = 1 /\ size[last.r] = 2

\* a step that erases node n, or clears or destroys the list that owns it
NodeGivenUp(n) ==
    \/ last'.op = "pop" /\ next[head_(last'.l)] = n
    \/ last'.op = "erase" /\ next[last'.pos] = n
    \/ last'.op \in {"clear", "destroy"} /\ n \in NodesOf(next, last'.l)

\* C9 as claimed: a cursor at an unreleased real node is still at an
\* unreleased node after every step that neither erases that node nor
\* clears or destroys the list owning it.
C9_Original_Step ==
    \A n \in Nodes :
        Allocated(nalloc, freed, n) /\ freed'[n] # 0 => NodeGivenUp(n)

C9_Original == [][C9_Original_Step]_vars

\* C9 as amended: a cursor at an unreleased real node n, whichever node that
\* is, is still at an unreleased node after every step that
\* does not erase that node, clear or destroy the list owning it, or
\* complete a copy assignment to the list owning it; PushFront, InsertAfter,
\* swap, self-assignment and a copy assignment that throws release nothing
\* a list owns.
C9_Step ==
    /\ \A n \in Nodes :
           Allocated(nalloc, freed, n) /\ freed'[n] # 0 =>
               \/ NodeGivenUp(n)
               \/ pc = "adopt" /\ n \in NodesOf(next, cp.dst)
               \/ pc = "build" /\ n \in NodesOf(next, container_copy)
    /\ last'.op \in {"push", "insert", "swap", "assign_self"} =>
           \A n \in Nodes : Allocated(nalloc, freed, n) => freed'[n] = 0
    /\ pc = "build" =>
           \A l \in UserLists :
               \A n \in NodesOf(next, l) : freed[n] = 0 => freed'[n] = 0

C9_CursorSurvivesUnrelatedOperations == [][C9_Step]_vars

C9_Witness ==
    /\ pc = "idle" /\ last.op = "erase"
    /\ live[last.l] /\ size[last.l] = 2
    /\ last.pos = Chain(next, last.l)[1] /\ freed[last.pos] = 0
    /\ last.ret = Chain(next, last.l)[2]

\* the number of real nodes in front of position p of list l, p included
IndexOf(nx, l, p) ==
    IF p = head_(l) THEN 0
    ELSE LET ch == Chain(nx, l) IN CHOOSE i \in 1..Len(ch) : ch[i] = p
InsertAt(s, i, x) == SubSeq(s, 1, i) \o <<x>> \o SubSeq(s, i + 1, Len(s))

\* C10: a successful InsertAfter(pos, v) puts one new node holding v right
\* after pos, keeps every other node, link order and element, adds 1 to the
\* size and returns a cursor to the new node, whose successor is the former
\* successor of pos.
C10_Step ==
    last'.op = "insert" /\ last'.f = "ok" =>
        LET l == last'.l
            pos == last'.pos
            i == IndexOf(next, l, pos)
            n == last'.ret
        IN /\ Allocated(nalloc', freed', n) /\ n > nalloc
           /\ \E v \in PushValues :
                  /\ value'[n] = v
                  /\ Elems(next', value', l)
                         = InsertAt(Elems(next, value, l), i, v)
           /\ Chain(next', l) = InsertAt(Chain(next, l), i, n)
           /\ size'[l] = size[l] + 1
           /\ \A m \in NodesOf(next, l) : value'[m] = value[m]
           /\ Advance(next', pos) = n
           /\ Advance(next', n) = Advance(next, pos)

C10_InsertAfterSplicesOneNode == [][C10_Step]_vars

C10_Witness ==
    /\ pc = "idle" /\ last.op = "insert" /\ last.f = "ok"
    /\ live[last.l] /\ size[last.l] = 3
    /\ last.pos = Chain(next, last.l)[1] /\ last.ret = Chain(next, last.l)[2]

RemoveAt(s, i) == SubSeq(s, 1, i - 1) \o SubSeq(s, i + 1, Len(s))

\* C11: EraseAfter(pos) at a position whose successor is a real node takes
\* exactly that successor out of the sequence and releases it (once), keeps
\* every other node, its element, its release count and the order, takes 1
\* off the size and returns a cursor to the node now following pos, the end
\* cursor when the erased node was the last one.
C11_Step ==
    last'.op = "erase" =>
        LET l == last'.l
            pos == last'.pos
            before == Chain(next, l)
            after == Chain(next', l)
            i == IndexOf(next, l, pos) + 1
            n == before[i]
        IN /\ n = Advance(next, pos) /\ n \in Nodes
           /\ after = RemoveAt(before, i)
           /\ \A m \in Range(after) : value'[m] = value[m]
           /\ Elems(next', value', l) = RemoveAt(Elems(next, value, l), i)
           /\ size'[l] = size[l] - 1
           /\ freed[n] = 0 /\ freed' = [freed EXCEPT ![n] = 1]
           /\ last'.ret = Advance(next', pos)
           /\ last'.ret = (IF i = Len(before) THEN NULL ELSE before[i + 1])
           /\ \A m \in UserLists \ {l} :
                  SameList(next, value, size, next', value', size', m)

C11_EraseAfterRemovesOneNode == [][C11_Step]_vars

\* the node after the first one was the last node and has been erased: the
\* end cursor came back; it was the second node released so far
C11_Witness ==
    /\ pc = "idle" /\ last.op = "erase"
    /\ live[last.l] /\ size[last.l] = 1
    /\ last.pos = Chain(next, last.l)[1] /\ last.ret = NULL
    /\ Cardinality({n \in Nodes : freed[n] = 1}) = 2

\* C12: PushFront(v) leaves the memory InsertAfter(before_begin(), v) leaves
\* from the same state, and the other way round (so the same elements, size
\* and first node, which holds v); PopFront() on a non-empty list leaves
\* the memory EraseAfter(before_begin()) leaves, and the other way round
\* (first node released, the rest as before, size less by 1); and
\* before_begin() advanced once is begin().
C12_Inv ==
    \A l \in Lists : live[l] =>
        Advance(next, before_begin(l)) = begin(next, l)

\* as the step was taken at position here, so it would be at position there
C12_SameInsertion(l, here, there) ==
    /\ next' = InsNext(next, here, nalloc + 1, last'.f)
    /\ next' = InsNext(next, there, nalloc + 1, last'.f)
    /\ there \in Positions(next, l)
    /\ last'.f = "ok" =>
           /\ begin(next', l) = nalloc + 1
           /\ value'[nalloc + 1] = last'.v
           /\ Elems(next', value', l) = <<last'.v>> \o Elems(next, value, l)
           /\ size'[l] = size[l] + 1

C12_SameErasure(l, here, there) ==
    /\ next' = Scrub(Unlink(next, here), {Erased(next, here)}, NULL)
    /\ next' = Scrub(Unlink(next, there), {Erased(next, there)}, NULL)
    /\ freed' = DeleteNode(freed, Erased(next, there))
    /\ value' = Scrub(value, {Erased(next, there)}, 0)
    /\ (size[l] # 0 /\ next[here] # NULL)
         <=> (size[l] # 0 /\ there # NULL /\ next[there] # NULL)
    /\ freed'[begin(next, l)] = 1
    /\ Elems(next', value', l) = Tail(Elems(next, value, l))
    /\ size'[l] = size[l] - 1

C12_Step ==
    /\ last'.op = "push" =>
           C12_SameInsertion(last'.l, head_(last'.l), before_begin(last'.l))
    /\ last'.op = "insert" /\ last'.pos = before_begin(last'.l) =>
           C12_SameInsertion(last'.l, last'.pos, head_(last'.l))
    /\ last'.op = "pop" =>
           C12_SameErasure(last'.l, head_(last'.l), before_begin(last'.l))
    /\ last'.op = "erase" /\ last'.pos = before_begin(last'.l) =>
           C12_SameErasure(last'.l, last'.pos, head_(last'.l))

C12_FrontOperationsAreSentinelOperations == []C12_Inv /\ [][C12_Step]_vars

\* PopFront has just released the first of the three nodes of a list
C12_Witness ==
    /\ pc = "idle" /\ last.op = "pop"
    /\ live[last.l] /\ size[last.l] = 2 /\ nalloc = 3
    /\ freed[3] = 1 /\ Chain(next, last.l) = <<2, 1>>

\* C13: a PopFront() right after a successful PushFront(v) on the same list,
\* and an EraseAfter(p) right after a successful InsertAfter(p, v) on the
\* same list, leave that list and every other list with the nodes, the
\* order, the links, the elements and the size they had before the
\* insertion, and every node that was unreleased before it unreleased; only
\* the transient node has been allocated and released.
C13_Undone ==
    LET pre == last.pre
    IN /\ \A l \in UserLists :
              pre.live[l] =>
                  /\ live'[l]
                  /\ SameList(pre.next, pre.value, pre.size,
                              next', value', size', l)
       /\ \A n \in Nodes : n <= pre.nalloc => freed'[n] = pre.freed[n]
       /\ nalloc' = pre.nalloc + 1 /\ freed'[nalloc'] = 1

C13_Step ==
    /\ last.op = "push" /\ last.f = "ok"
         /\ last'.op = "pop" /\ last'.l = last.l => C13_Undone
    /\ last.op = "insert" /\ last.f = "ok"
         /\ last'.op = "erase" /\ last'.l = last.l /\ last'.pos = last.pos
           => C13_Undone

C13_InsertThenEraseIsRoundTrip == [][C13_Step]_vars

\* InsertAfter at the first of two nodes has just been undone by EraseAfter
\* at the same node
C13_Witness ==
    /\ pc = "idle" /\ last.op = "erase"
    /\ live[last.l] /\ Chain(next, last.l) = <<2, 1>>
    /\ last.pos = 2 /\ last.ret = 1
    /\ nalloc = 3 /\ freed[3] = 1

\* same length and the same element at every index
SeqEqual(s, t) == Len(s) = Len(t) /\ \A i \in 1..Len(s) : s[i] = t[i]

\* C14: for all lists drawn from the bounded element set, lhs == rhs is true
\* exactly when the sizes are equal and the elements agree at every index,
\* lhs != rhs is true exactly when they do not, == is reflexive, symmetric
\* and transitive, and no comparison dereferences the end cursor of rhs:
\* with different sizes the answer is false before any element is read.
C14_Inv ==
    \A a, b \in CmpLists :
        LET eq == ListEq(next, value, size, a, b)
            same == /\ size[a] = size[b]
                    /\ SeqEqual(Elems(next, value, a), Elems(next, value, b))
        IN /\ eq.res <=> same
           /\ ListNe(next, value, size, a, b) <=> ~same
           /\ ~eq.overrun
           /\ size[a] # size[b] => ~eq.res
           /\ ListEq(next, value, size, a, a).res
           /\ eq.res => ListEq(next, value, size, b, a).res
           /\ \A c \in CmpLists :
                  eq.res /\ ListEq(next, value, size, b, c).res
                      => ListEq(next, value, size, a, c).res

C14_Step ==
    /\ last'.op = "==" =>
           (last'.k = 1 <=> SeqEqual(Elems(next, value, last'.l),
                                     Elems(next, value, last'.r)))
    /\ last'.op = "!=" =>
           (last'.k = 1 <=> ~SeqEqual(Elems(next, value, last'.l),
                                      Elems(next, value, last'.r)))

C14_EqualityIsSizeAndElements == []C14_Inv /\ [][C14_Step]_vars

\* a shorter list that is a prefix of the longer one has been compared with
\* it and found different; two more lists are equal element by element
C14_Witness ==
    /\ last.op = "==" /\ last.k = 0
    /\ size[last.l] = 1 /\ size[last.r] = 2
    /\ Elems(next, value, last.l)[1] = Elems(next, value, last.r)[1]
    /\ size[rhs_copy] = 1
    /\ Elems(next, value, rhs_copy) = Elems(next, value, last.l)

\* s comes before t in the lexicographic order: they agree on the first k
\* elements and then s ends while t goes on, or s has the smaller element
SeqLess(s, t) ==
    \E k \in 0..Len(s) :
        /\ k <= Len(t)
        /\ \A i \in 1..k : s[i] = t[i]
        /\ \/ k = Len(s) /\ k < Len(t)
           \/ k < Len(s) /\ k < Len(t) /\ s[k + 1] < t[k + 1]

\* C15: for all lists drawn from the bounded ordered element set, lhs < rhs
\* is the lexicographic order of the element sequences (so the empty list
\* is less than every non-empty one and a proper prefix less than its
\* extension), lhs > rhs is rhs < lhs, lhs <= rhs is lhs < rhs or
\* lhs == rhs, and lhs >= rhs is lhs > rhs or lhs == rhs.
C15_Inv ==
    \A a, b \in CmpLists :
        LET s == Elems(next, value, a)
            t == Elems(next, value, b)
            lt == ListLt(next, value, a, b)
            gt == ListGt(next, value, a, b)
            eq == ListEq(next, value, size, a, b).res
        IN /\ lt <=> SeqLess(s, t)
           /\ s = << >> /\ t # << >> => lt
           /\ Len(s) < Len(t) /\ s = SubSeq(t, 1, Len(s)) => lt
           /\ gt <=> ListLt(next, value, b, a)
           /\ ListLe(next, value, a, b) <=> (lt \/ eq)
           /\ ListGe(next, value, a, b) <=> (gt \/ eq)
           /\ ~(lt /\ gt) /\ ~(lt /\ eq) /\ (lt \/ gt \/ eq)

C15_Step ==
    LET s == Elems(next, value, last'.l)
        t == Elems(next, value, last'.r)
    IN /\ last'.op = "<" => (last'.k = 1 <=> SeqLess(s, t))
       /\ last'.op = ">" => (last'.k = 1 <=> SeqLess(t, s))
       /\ last'.op = "<=" => (last'.k = 1 <=> (SeqLess(s, t) \/ SeqEqual(s, t)))
       /\ last'.op = ">=" => (last'.k = 1 <=> (SeqLess(t, s) \/ SeqEqual(s, t)))

C15_OrderIsLexicographic == []C15_Inv /\ [][C15_Step]_vars

\* two lists of two elements that differ in the last one have been compared
\* with < and the one with the smaller last element found less
C15_Witness ==
    /\ last.op = "<" /\ last.k = 1
    /\ size[last.l] = 2 /\ size[last.r] = 2
    /\ Elems(next, value, last.l)[1] = Elems(next, value, last.r)[1]
    /\ Elems(next, value, last.l)[2] < Elems(next, value, last.r)[2]

Reverse(s) == [i \in 1..Len(s) |-> s[Len(s) + 1 - i]]

\* C16: a list constructed from a literal sequence of n elements, n = 0 and
\* n = 1 included, has size n and holds the elements in the order of the
\* literal (while it is built, what is built followed by what is still to
\* come is the literal); and each successful PushFront(v) puts v in front
\* of the elements already there, so that pushes on an empty list are
\* traversed in reverse push order.
C16_Inv ==
    pc = "build" /\ cp.kind = "literal" =>
        Elems(next, value, container_copy) \o cp.lit = last.vals

C16_Step ==
    /\ pc = "build" /\ cp.kind = "literal" /\ pc' = "idle" /\ last'.f = "ok" =>
           /\ live'[cp.dst]
           /\ Elems(next', value', cp.dst) = last'.vals
           /\ size'[cp.dst] = Len(last'.vals)
           /\ Len(Chain(next', cp.dst)) = Len(last'.vals)
           /\ (last'.vals = << >> => begin(next', cp.dst) = NULL)
    /\ last'.op = "push" /\ last'.f = "ok" =>
           /\ Elems(next', value', last'.l)
                  = <<last'.v>> \o Elems(next, value, last'.l)
           /\ Reverse(Elems(next', value', last'.l))
                  = Reverse(Elems(next, value, last'.l)) \o <<last'.v>>
           /\ size'[last'.l] = size[last'.l] + 1

C16_LiteralOrderKeptPushOrderReversed == []C16_Inv /\ [][C16_Step]_vars

\* a list has just been constructed from a literal of two different elements
C16_Witness ==
    /\ pc = "idle" /\ last.op = "ctor_literal" /\ last.f = "ok"
    /\ Len(last.vals) = 2 /\ last.vals[1] # last.vals[2]
    /\ live[last.l] /\ size[last.l] = 2
    /\ Elems(next, value, last.l) = last.vals

OutOfContractCalls ==
    {"PopFront", "InsertAfter", "EraseAfter", "operator*", "operator->",
     "operator++"}

\* C17 as claimed: every call out of contract ends in a failed assertion,
\* the dereference of the cursor before_begin() included.
C17_Original_Step == last'.op \in OutOfContractCalls => pc' = "abort"

C17_Original == [][C17_Original_Step]_vars

\* C17 as amended: PopFront on an empty list, EraseAfter on an empty list or
\* at a position without successor, InsertAfter and EraseAfter through the
\* end cursor, dereference of the end cursor and advancing the end cursor
\* end in a failed assertion; the dereference of the cursor before_begin()
\* passes assert(node_), the sentinel's address not being null.
C17_Step ==
    last'.op \in OutOfContractCalls =>
        /\ pc' \in {"abort", "undetected"}
        /\ pc' = "undetected" <=>
               /\ last'.op \in {"operator*", "operator->"}
               /\ last'.pos = before_begin(last'.l)
        /\ last'.op = "PopFront" => size[last'.l] = 0 /\ pc' = "abort"
        /\ last'.op = "EraseAfter" =>
               /\ size[last'.l] = 0 \/ last'.pos = NULL
                      \/ Advance(next, last'.pos) = NULL
               /\ pc' = "abort"
        /\ last'.pos = NULL => pc' = "abort"

C17_AssertionsCatchAllButSentinelDereference == [][C17_Step]_vars

\* EraseAfter at the last real node of a list has failed its assertion
C17_Witness ==
    /\ pc = "abort" /\ last.op = "EraseAfter" /\ last.pos \in Nodes

\* the fields of list l are those of a freshly constructed empty list
LikeFresh(nx, sz, l) ==
    /\ nx[head_(l)] = NULL /\ sz[l] = 0
    /\ begin(nx, l) = end /\ IsEmpty(sz, l) /\ GetSize(sz, l) = 0
    /\ Chain(nx, l) = << >>

\* C18: Clear() on a list in any state ends after as many deletes as the
\* list has nodes, hands every real node of the list to delete exactly once
\* and front to back, releases nothing else, and leaves the list with the
\* fields of a freshly constructed one (sentinel link = end, size 0,
\* begin() = end(), IsEmpty()); a list of size 0 has these fields however it
\* became empty, so no later operation can tell it from a fresh list.
C18_Inv ==
    \A l \in UserLists : live[l] /\ IsEmpty(size, l) => LikeFresh(next, size, l)

C18_Step ==
    /\ last'.op = "clear" =>
           LET l == last'.l
               order == ClearOrder(next, l)
           IN /\ Len(order) <= MaxNodes
              /\ order = Chain(next, l)
              /\ \A n \in Nodes :
                     freed'[n] = freed[n] + (IF n \in Range(order) THEN 1 ELSE 0)
              /\ \A n \in Range(order) : freed[n] = 0
              /\ live'[l] /\ LikeFresh(next', size', l)
              /\ \A m \in UserLists \ {l} :
                     SameList(next, value, size, next', value', size', m)
    /\ last'.op = "ctor_empty" =>
           live'[last'.l] /\ LikeFresh(next', size', last'.l)

C18_ClearLeavesFreshEmptyList == []C18_Inv /\ [][C18_Step]_vars

\* a list of three nodes has just been cleared
C18_Witness ==
    /\ pc = "idle" /\ last.op = "clear"
    /\ live[last.l] /\ LikeFresh(next, size, last.l)
    /\ nalloc = 3 /\ \A n \in 1..3 : freed[n] = 1
    /\ \A m \in UserLists \ {last.l} : ~live[m]

\* C19: a = a is over in one step that allocates nothing, releases nothing
\* and leaves every link, element, size and list as it was, so that every
\* cursor into a is at the node it was at.
C19_Step ==
    pc = "idle" /\ last'.op \in {"assign", "assign_self"}
                /\ last'.l = last'.r =>
        /\ pc' = "idle"
        /\ nalloc' = nalloc /\ freed' = freed
        /\ next' = next /\ value' = value /\ size' = size /\ live' = live
        /\ cp' = cp
        /\ Chain(next', last'.l) = Chain(next, last'.l)

C19_SelfAssignmentIsNoOp == [][C19_Step]_vars

\* a list of two nodes has just been assigned to itself
C19_Witness ==
    /\ pc = "idle" /\ last.op = "assign_self" /\ last.l = last.r
    /\ live[last.l] /\ size[last.l] = 2
    /\ \A n \in NodesOf(next, last.l) : freed[n] = 0

\* C20: the step that completes a copy assignment a = b, a and b distinct
\* (swap with rhs_copy, then rhs_copy's destructor), releases every node a
\* owned before the assignment, each exactly once and none before this
\* step, releases nothing else: no node of b and no node of the copy; a
\* then owns only nodes allocated by the assignment, as many as b has, and
\* no list reaches a node a owned before.
C20_Step ==
    pc = "adopt" /\ pc' = "idle" =>
        LET a == cp.dst
            b == cp.src
            old == NodesOf(cp.pre.next, a)
        IN /\ a # b /\ last'.op = "assign" /\ last'.f = "ok"
           /\ old = NodesOf(next, a)
           /\ \A n \in old :
                  cp.pre.freed[n] = 0 /\ freed[n] = 0 /\ freed'[n] = 1
           /\ \A n \in Nodes \ old : freed'[n] = freed[n]
           /\ \A n \in NodesOf(cp.pre.next, b) : freed'[n] = 0
           /\ NodesOf(next', b) = NodesOf(cp.pre.next, b)
           /\ \A n \in NodesOf(next', a) :
                  n > cp.pre.nalloc /\ n <= nalloc' /\ freed'[n] = 0
           /\ Cardinality(NodesOf(next', a)) = size'[b]
           /\ ~live'[rhs_copy] /\ ~live'[container_copy]
           /\ \A l \in Lists : live'[l] => NodesOf(next', l) \cap old = {}

C20_AssignmentReleasesOldNodesOnce == [][C20_Step]_vars

\* a list of two nodes has been assigned a list of one node: a owns the one
\* fresh node and its two old nodes are released
C20_Witness ==
    /\ pc = "idle" /\ last.op = "assign" /\ last.f = "ok"
    /\ last.l # last.r /\ live[last.l] /\ live[last.r]
    /\ nalloc = 4 /\ Chain(next, last.l) = <<4>>
    /\ size[last.r] = 1
    /\ Cardinality({n \in Nodes : freed[n] = 1}) = 2

====
